---------------------------- MODULE Spec2Model ----------------------------
(***************************************************************************)
(* Model of pasture-io/src/las/raw_readers.rs: the uncompressed reader     *)
(* RawLASReader and the compressed reader RawLAZReader, their decode paths *)
(* (default / custom layout), read, read_into and seek_point.              *)
(*                                                                         *)
(* A reader is opened on a stream described by its header (format id,      *)
(* point count, record length).  The stream's bytes are a fixed function   *)
(* of the byte position (StreamByte), so that every decoded value can be   *)
(* traced to the position it was read from.                                *)
(***************************************************************************)
EXTENDS Integers, Sequences, FiniteSets, TLC

VARIABLES
    kind,                   \* "las" (RawLASReader) or "laz" (RawLAZReader)
    point_format,           \* metadata.point_format(): 0..10
    point_count,            \* metadata.point_count()
    size_of_point_in_file,  \* raw_header.point_data_record_length
    has_laszip_vlr,         \* the header carries the LASzip VLR
    phase,                  \* "closed", "open", "open_failed", "panicked"
    current_point_index,    \* the reader's logical point index
    reader_pos,             \* las: byte position of the underlying stream;
                            \* laz: point position of the decompressor
    decompressor_created,   \* LasZipDecompressor::new has been called
    last,                   \* the last call: its arguments and its outcome
    buffer                  \* the buffer of the last call, when it was a read or
                            \* a read_into: the records pushed to it

vars == << kind, point_format, point_count, size_of_point_in_file, has_laszip_vlr,
           phase, current_point_index, reader_pos, decompressor_created, last, buffer >>

header == << kind, point_format, point_count, size_of_point_in_file, has_laszip_vlr >>

-----------------------------------------------------------------------------
(* Bounds of the model *)

\* largest point count of a stream
MaxPoints == 4
\* number of extra bytes of a record that carries some after the format's fields
MaxExtra == 1
\* chunk_size of read_into_*_layout; 50_000 in the source, scaled down so that
\* a request of MaxPoints records spans several chunks
ChunkSize == 3
\* width of the 64-bit integers (i64, u64, usize) of seek_point, scaled down
OffsetBits == 6
\* raw_header.offset_to_point_data
OffsetToFirstPoint == 5

Formats == 0..10

Min(a, b) == IF a < b THEN a ELSE b

RECURSIVE Pow2(_)
Pow2(n) == IF n = 0 THEN 1 ELSE 2 * Pow2(n - 1)

MaxI64 == Pow2(OffsetBits - 1) - 1
MinI64 == 0 - Pow2(OffsetBits - 1)
MaxU64 == Pow2(OffsetBits) - 1

\* `x as i64` for an unsigned x, and the wrap-around of a signed sum
AsI64(x) == IF x > MaxI64 THEN x - Pow2(OffsetBits) ELSE x
WrapI64(x) == ((x - MinI64) % Pow2(OffsetBits)) + MinI64

-----------------------------------------------------------------------------
(* Format descriptor: las_rs::point::Format::new(id) *)

IsExtended(f) == f \in 6..10
HasWaveform(f) == f \in {4, 5, 9, 10}
HasGpsTime(f) == f \in {1, 3, 4, 5, 6, 7, 8, 9, 10}
HasColor(f) == f \in {2, 3, 5, 7, 8, 10}
HasNir(f) == f \in {8, 10}

-----------------------------------------------------------------------------
(* Point layouts: a layout is a sequence of attributes [name, dt], packed in  *)
(* this order.  Two layouts are equal when the sequences are equal.          *)

DatatypeSize(dt) ==
    CASE dt = "U8" -> 1
      [] dt = "I8" -> 1
      [] dt = "Bool" -> 1
      [] dt = "U16" -> 2
      [] dt = "I16" -> 2
      [] dt = "U32" -> 4
      [] dt = "F32" -> 4
      [] dt = "U64" -> 8
      [] dt = "F64" -> 8
      [] dt = "Vec3u16" -> 6
      [] dt = "Vec3f32" -> 12
      [] dt = "Vec3f64" -> 24

Attr(n, dt) == [name |-> n, dt |-> dt]

AttrNames(layout) == { layout[i].name : i \in DOMAIN layout }

HasAttribute(layout, n) == n \in AttrNames(layout)

\* get_attribute_by_name
AttributeByName(layout, n) ==
    layout[CHOOSE i \in DOMAIN layout : layout[i].name = n]

RECURSIVE SizeOfPrefix(_, _)
SizeOfPrefix(layout, k) ==
    IF k = 0 THEN 0
    ELSE SizeOfPrefix(layout, k - 1) + DatatypeSize(layout[k].dt)

\* size_of_point_entry
SizeOfPointEntry(layout) == SizeOfPrefix(layout, Len(layout))

\* an offset that ignores the attributes before the attribute
AttributeOffsetOfFirst(layout, n) == 0

\* offset() of an attribute of the layout
AttributeOffset(layout, n) ==
    SizeOfPrefix(layout, (CHOOSE i \in DOMAIN layout : layout[i].name = n) - 1)

\* The natural layout of a format: the attributes in the order and with the
\* widths in which read_chunk_default_layout writes them to the chunk buffer.
NaturalLayout(f) ==
    << Attr("Position3D", "Vec3f64"), Attr("Intensity", "U16"),
       Attr("ReturnNumber", "U8"), Attr("NumberOfReturns", "U8") >>
    \o (IF f > 5
        THEN << Attr("ClassificationFlags", "U8"), Attr("ScannerChannel", "U8") >>
        ELSE << >>)
    \o << Attr("ScanDirectionFlag", "Bool"), Attr("EdgeOfFlightLine", "Bool"),
          Attr("Classification", "U8") >>
    \o (IF f <= 5
        THEN << Attr("ScanAngleRank", "I8"), Attr("UserData", "U8") >>
        ELSE << Attr("UserData", "U8"), Attr("ScanAngleRank", "I16") >>)
    \o << Attr("PointSourceID", "U16") >>
    \o (IF HasGpsTime(f) THEN << Attr("GpsTime", "F64") >> ELSE << >>)
    \o (IF HasColor(f) THEN << Attr("ColorRGB", "Vec3u16") >> ELSE << >>)
    \o (IF HasNir(f) THEN << Attr("NIR", "U16") >> ELSE << >>)
    \o (IF HasWaveform(f)
        THEN << Attr("WavePacketDescriptorIndex", "U8"),
                Attr("WaveformDataOffset", "U64"),
                Attr("WaveformPacketSize", "U32"),
                Attr("ReturnPointWaveformLocation", "F32"),
                Attr("WaveformParameters", "Vec3f32") >>
        ELSE << >>)

\* get_converter_for_attributes: no converter (<< >>) between equal datatypes,
\* the registry's converter (named by the pair of datatypes) otherwise
ConverterForAttributes(from, to) ==
    IF from.dt = to.dt THEN << >> ELSE << from.dt, to.dt >>

\* get_attribute_parser: None (present = FALSE), or the target's offset and size and the
\* converter from the source layout's attribute of that name
GetAttributeParser(n, source_layout, target_layout) ==
    IF ~HasAttribute(target_layout, n)
    THEN [present |-> FALSE, offset |-> 0, size |-> 0, conv |-> << >>]
    ELSE LET t == AttributeByName(target_layout, n) IN
         [present |-> TRUE,
          offset  |-> AttributeOffset(target_layout, n),
          size    |-> DatatypeSize(t.dt),
          conv    |-> IF HasAttribute(source_layout, n)
                      THEN ConverterForAttributes(AttributeByName(source_layout, n), t)
                      ELSE << >>]

-----------------------------------------------------------------------------
(* The byte sources *)

\* per-axis scale factors and offsets of the header (point_scales, point_offsets)
PointScales == << 1, 2, 1 >>
PointOffsets == << 10, 20, 30 >>

\* The byte of the uncompressed point data at absolute file position q.  Every
\* byte is in 1..63: never zero, so that a value read from the source differs
\* from a default value, and small enough for a 32-bit coordinate to be computed.
StreamByte(q) == 1 + ((q * 37 + (q \div 7) * 11) % 63)

\* The uncompressed reader's source: the stream itself, a cursor is a file position
LasSource(count, size) ==
    [type |-> "stream", limit |-> OffsetToFirstPoint + count * size,
     first |-> 0, fresh |-> 0, size |-> size, chunk_index |-> 0, chunk_size |-> 0]

\* The compressed reader's source: the decompression buffer of chunk_size records
\* after decompress_many has filled its first n records with the points first..
LazSourceOf(c, first, n, chunk_index, size) ==
    [type |-> "chunk", limit |-> c * size,
     first |-> first, fresh |-> n * size, size |-> size, chunk_index |-> chunk_index,
     chunk_size |-> c]

LazSource(first, n, chunk_index, size) ==
    LazSourceOf(ChunkSize, first, n, chunk_index, size)

\* The byte a cursor at position p of the source reads.  In the decompression
\* buffer the bytes behind the freshly decompressed prefix are those the previous
\* chunk of the call left there, zero in the first chunk (vec![0; ...]).
SourceByte(src, p) ==
    IF src.type = "stream" THEN StreamByte(p)
    ELSE IF p < src.fresh
         THEN StreamByte(OffsetToFirstPoint + src.first * src.size + p)
    ELSE IF src.chunk_index = 0 THEN 0
    ELSE StreamByte(OffsetToFirstPoint + (src.first - src.chunk_size) * src.size + p)

SourceBytes(src, p, w) == [i \in 1..w |-> SourceByte(src, p + i - 1)]

Zeros(w) == [i \in 1..w |-> 0]

\* read_u32::<LittleEndian>
U32LE(b) == b[1] + 256 * b[2] + 65536 * b[3] + 16777216 * b[4]

\* a transform that scales and shifts every axis as the x axis
WorldSpacePositionAsX(b, scales, offsets) ==
    << U32LE(SubSeq(b, 1, 4)) * scales[1] + offsets[1],
       U32LE(SubSeq(b, 5, 8)) * scales[1] + offsets[1],
       U32LE(SubSeq(b, 9, 12)) * scales[1] + offsets[1] >>

\* (local as f64 * point_scales) + point_offsets on every axis, for the scale
\* factors and offsets of a header
WorldSpacePositionWith(b, scales, offsets) ==
    << U32LE(SubSeq(b, 1, 4)) * scales[1] + offsets[1],
       U32LE(SubSeq(b, 5, 8)) * scales[2] + offsets[2],
       U32LE(SubSeq(b, 9, 12)) * scales[3] + offsets[3] >>

\* read_next_world_space_position: local * scale + offset on every axis
WorldSpacePosition(b) == WorldSpacePositionWith(b, PointScales, PointOffsets)

\* a one-byte decoding that masks the number of returns with 2 bits
BitAttributesRegularNarrowReturns(b) ==
    [ReturnNumber |-> b[1] % 8,
     NumberOfReturns |-> (b[1] \div 8) % 4,
     ClassificationFlags |-> 0,
     ScannerChannel |-> 0,
     ScanDirectionFlag |-> (b[1] \div 64) % 2,
     EdgeOfFlightLine |-> (b[1] \div 128) % 2]

\* read_next_bit_attributes
BitAttributesRegular(b) ==
    [ReturnNumber |-> b[1] % 8,
     NumberOfReturns |-> (b[1] \div 8) % 8,
     ClassificationFlags |-> 0,
     ScannerChannel |-> 0,
     ScanDirectionFlag |-> (b[1] \div 64) % 2,
     EdgeOfFlightLine |-> (b[1] \div 128) % 2]

\* a two-byte decoding that masks the scanner channel with 4 bits
BitAttributesExtendedWideChannel(b) ==
    [ReturnNumber |-> b[1] % 16,
     NumberOfReturns |-> (b[1] \div 16) % 16,
     ClassificationFlags |-> b[2] % 16,
     ScannerChannel |-> (b[2] \div 16) % 16,
     ScanDirectionFlag |-> (b[2] \div 64) % 2,
     EdgeOfFlightLine |-> (b[2] \div 128) % 2]

BitAttributesExtended(b) ==
    [ReturnNumber |-> b[1] % 16,
     NumberOfReturns |-> (b[1] \div 16) % 16,
     ClassificationFlags |-> b[2] % 16,
     ScannerChannel |-> (b[2] \div 16) % 4,
     ScanDirectionFlag |-> (b[2] \div 64) % 2,
     EdgeOfFlightLine |-> (b[2] \div 128) % 2]

ReadNextBitAttributes(extended, b) ==
    IF extended THEN BitAttributesExtended(b) ELSE BitAttributesRegular(b)

NoBits == BitAttributesRegular(<< 0 >>)

-----------------------------------------------------------------------------
(* The walk over one record.  A decode path is the sequence of its steps over *)
(* the on-disk fields; a step says whether the field's bytes are read or      *)
(* skipped (seek) and whether a value is written to the target.              *)

Step(attr, k, width, srcsize, read, skip, parser) ==
    [attr |-> attr, kind |-> k, width |-> width, srcsize |-> srcsize,
     read |-> read, skip |-> skip, write |-> parser.present, parser |-> parser]

\* "if let Some(parser) { read; write } else { seek(width) }"
ReadOrSkip(attr, k, width, srcsize, parser) ==
    Step(attr, k, width, srcsize, parser.present, ~parser.present, parser)

\* "let v = read; if let Some(parser) { write }"
ReadAlways(attr, width, parser) ==
    Step(attr, "raw", width, width, TRUE, FALSE, parser)

\* the bit attribute byte(s): always read, nothing written
ReadBits(extended) ==
    [attr |-> "BitAttributes", kind |-> "bits", width |-> IF extended THEN 2 ELSE 1,
     srcsize |-> 0, read |-> TRUE, skip |-> FALSE, write |-> FALSE,
     parser |-> [present |-> FALSE, offset |-> 0, size |-> 0, conv |-> << >>]]

\* one sub-field of the decoded bit attributes: nothing is read
BitField(attr, parser) ==
    Step(attr, "sub", 0, 1, FALSE, FALSE, parser)

\* an optional field that is not skipped when the target does not declare it
OptionalNoSkip(attr, width, has, guarded, parser) ==
    Step(attr, "raw", width, width,
         parser.present /\ (has \/ ~guarded), FALSE, parser)

\* "if let Some(parser) { read_next_X_or_default; write } else if has { seek }":
\* the decoder reads the field when the format has it, and when it has not,
\* a guarded decoder yields the default and an unguarded one reads all the same
Optional(attr, width, has, guarded, parser) ==
    Step(attr, "raw", width, width,
         parser.present /\ (has \/ ~guarded), ~parser.present /\ has, parser)

\* the parser of the default path: the attribute at its natural offset
NaturalParser(f, attr, srcsize) ==
    [present |-> TRUE, offset |-> AttributeOffset(NaturalLayout(f), attr),
     size |-> srcsize, conv |-> << >>]

\* read_chunk_default_layout: every field of the format is read and written.
\* bitsExtended and scanRegular are the path's own tests of the format.
DefaultPlan(f, bitsExtended, scanRegular) ==
    LET N(attr, k, width, srcsize) ==
            Step(attr, k, width, srcsize, TRUE, FALSE, NaturalParser(f, attr, srcsize))
        B(attr) == BitField(attr, NaturalParser(f, attr, 1))
    IN  << N("Position3D", "pos", 12, 24), N("Intensity", "raw", 2, 2),
           ReadBits(bitsExtended), B("ReturnNumber"), B("NumberOfReturns") >>
        \o (IF bitsExtended
            THEN << B("ClassificationFlags"), B("ScannerChannel") >> ELSE << >>)
        \o << B("ScanDirectionFlag"), B("EdgeOfFlightLine"),
              N("Classification", "raw", 1, 1) >>
        \o (IF scanRegular
            THEN << N("ScanAngleRank", "raw", 1, 1), N("UserData", "raw", 1, 1) >>
            ELSE << N("UserData", "raw", 1, 1), N("ScanAngleRank", "raw", 2, 2) >>)
        \o << N("PointSourceID", "raw", 2, 2) >>
        \o (IF HasGpsTime(f) THEN << N("GpsTime", "raw", 8, 8) >> ELSE << >>)
        \o (IF HasColor(f) THEN << N("ColorRGB", "raw", 6, 6) >> ELSE << >>)
        \o (IF HasNir(f) THEN << N("NIR", "raw", 2, 2) >> ELSE << >>)
        \o (IF HasWaveform(f)
            THEN << N("WavePacketDescriptorIndex", "raw", 1, 1),
                    N("WaveformDataOffset", "raw", 8, 8),
                    N("WaveformPacketSize", "raw", 4, 4),
                    N("ReturnPointWaveformLocation", "raw", 4, 4),
                    N("WaveformParameters", "raw", 12, 12) >>
            ELSE << >>)

\* RawLASReader::read_chunk_default_layout tests point_format() > 5 and <= 5
\* a default path that reads none of the optional groups
LazDefaultPlanOfFormat0(f) == DefaultPlan(0, IsExtended(f), f <= 5)

\* a default path that reads the scan angle before the user data in every format
LasDefaultPlanScanFirst(f) == DefaultPlan(f, f > 5, TRUE)

\* a default path that takes format 6 for a regular format
LasDefaultPlanAbove6(f) == DefaultPlan(f, f > 6, f <= 5)

LasDefaultPlan(f) == DefaultPlan(f, f > 5, f <= 5)

\* RawLAZReader::read_chunk_default_layout tests is_extended and point_format() <= 5
LazDefaultPlan(f) == DefaultPlan(f, IsExtended(f), f <= 5)

\* RawLASReader::read_chunk_custom_layout
LasCustomPlan(f, target) ==
    LET P(attr) == GetAttributeParser(attr, NaturalLayout(f), target)
        O(attr, width, has) == Optional(attr, width, has, TRUE, P(attr))
    IN  << ReadOrSkip("Position3D", "pos", 12, 24, P("Position3D")),
           ReadOrSkip("Intensity", "raw", 2, 2, P("Intensity")),
           ReadBits(IsExtended(f)),
           BitField("ReturnNumber", P("ReturnNumber")),
           BitField("NumberOfReturns", P("NumberOfReturns")),
           BitField("ClassificationFlags", P("ClassificationFlags")),
           BitField("ScannerChannel", P("ScannerChannel")),
           BitField("ScanDirectionFlag", P("ScanDirectionFlag")),
           BitField("EdgeOfFlightLine", P("EdgeOfFlightLine")),
           ReadOrSkip("Classification", "raw", 1, 1, P("Classification")) >>
        \o (IF ~IsExtended(f)
            THEN << ReadAlways("ScanAngleRank", 1, P("ScanAngleRank")),
                    ReadAlways("UserData", 1, P("UserData")) >>
            ELSE << ReadAlways("UserData", 1, P("UserData")),
                    ReadAlways("ScanAngleRank", 2, P("ScanAngleRank")) >>)
        \o << ReadOrSkip("PointSourceID", "raw", 2, 2, P("PointSourceID")),
              O("GpsTime", 8, HasGpsTime(f)),
              O("ColorRGB", 6, HasColor(f)),
              O("NIR", 2, HasNir(f)),
              O("WavePacketDescriptorIndex", 1, HasWaveform(f)),
              O("WaveformDataOffset", 8, HasWaveform(f)),
              O("WaveformPacketSize", 4, HasWaveform(f)),
              O("ReturnPointWaveformLocation", 4, HasWaveform(f)),
              O("WaveformParameters", 12, HasWaveform(f)) >>

\* RawLAZReader::read_chunk_custom_layout: run_parser per field; the decoders of
\* color and of the waveform parameters are the *_or_default ones, the others
\* read from the cursor whatever the format
LazCustomPlan(f, target) ==
    LET P(attr) == GetAttributeParser(attr, NaturalLayout(f), target)
        O(attr, width, has, guarded) == Optional(attr, width, has, guarded, P(attr))
    IN  << ReadOrSkip("Position3D", "pos", 12, 24, P("Position3D")),
           ReadOrSkip("Intensity", "raw", 2, 2, P("Intensity")),
           ReadBits(IsExtended(f)),
           BitField("ReturnNumber", P("ReturnNumber")),
           BitField("NumberOfReturns", P("NumberOfReturns")),
           BitField("ClassificationFlags", P("ClassificationFlags")),
           BitField("ScannerChannel", P("ScannerChannel")),
           BitField("ScanDirectionFlag", P("ScanDirectionFlag")),
           BitField("EdgeOfFlightLine", P("EdgeOfFlightLine")),
           ReadOrSkip("Classification", "raw", 1, 1, P("Classification")) >>
        \o (IF IsExtended(f)
            THEN << ReadOrSkip("UserData", "raw", 1, 1, P("UserData")),
                    ReadOrSkip("ScanAngleRank", "raw", 2, 2, P("ScanAngleRank")) >>
            ELSE << ReadOrSkip("ScanAngleRank", "raw", 1, 1, P("ScanAngleRank")),
                    ReadOrSkip("UserData", "raw", 1, 1, P("UserData")) >>)
        \o << ReadOrSkip("PointSourceID", "raw", 2, 2, P("PointSourceID")),
              O("GpsTime", 8, HasGpsTime(f), FALSE),
              O("ColorRGB", 6, HasColor(f), TRUE),
              O("NIR", 2, HasNir(f), FALSE),
              O("WavePacketDescriptorIndex", 1, HasWaveform(f), FALSE),
              O("WaveformDataOffset", 8, HasWaveform(f), FALSE),
              O("WaveformPacketSize", 4, HasWaveform(f), FALSE),
              O("ReturnPointWaveformLocation", 4, HasWaveform(f), FALSE),
              O("WaveformParameters", 12, HasWaveform(f), TRUE) >>

\* the walk st after a step that has read the bytes b: a raw copy (no converter)
\* between slices of different lengths is the panic of copy_from_slice
AfterStep(st, step, b, cur2) ==
    IF ~step.write
    THEN [st EXCEPT !.cur = cur2,
                    !.bits = IF step.kind = "bits"
                             THEN ReadNextBitAttributes(step.width = 2, b) ELSE @]
    ELSE IF step.parser.conv = << >> /\ step.parser.size # step.srcsize
    THEN [st EXCEPT !.status = "panic", !.cur = cur2]
    ELSE [st EXCEPT !.cur = cur2,
                    !.rec = @ @@ (step.attr :>
                        [v |-> CASE step.kind = "pos" -> WorldSpacePosition(b)
                                 [] step.kind = "sub" -> << st.bits[step.attr] >>
                                 [] OTHER -> IF step.read THEN b
                                             ELSE Zeros(step.srcsize),
                         conv |-> step.parser.conv])]

\* The effect of one step on the walk st = [status, cur, bits, rec]: a read past
\* the end of the source is an error
RunStep(src, st, step) ==
    IF st.status # "ok" THEN st
    ELSE IF step.read /\ st.cur + step.width > src.limit
    THEN [st EXCEPT !.status = "err"]
    ELSE AfterStep(st, step,
                   IF step.read THEN SourceBytes(src, st.cur, step.width) ELSE << >>,
                   IF step.read \/ step.skip THEN st.cur + step.width ELSE st.cur)

RECURSIVE RunPlan(_, _, _, _)
RunPlan(src, plan, i, st) ==
    IF i > Len(plan) THEN st
    ELSE RunPlan(src, plan, i + 1, RunStep(src, st, plan[i]))

-----------------------------------------------------------------------------
(* Chunks *)

EmptyRecord == [a \in {} |-> 0]

NoFailure == 0 - 1

\* the walk of a chunk after the walk st of its next record: the record is kept
\* when it was decoded, cur0 is the cursor the record was decoded from
AfterRecord(acc, st) ==
    [status  |-> st.status,
     cur     |-> st.cur,
     recs    |-> IF st.status = "ok" THEN Append(acc.recs, st.rec) ELSE acc.recs,
     cursors |-> Append(acc.cursors, acc.cur)]

\* The loop "for point_index in 0..num_points_in_chunk" of read_chunk_*: record j
\* of the chunk is decoded from the cursor where record j-1 ended.  failAt is the
\* index (within the call) of the record at which the stream's read fails.
RECURSIVE ReadRecords(_, _, _, _, _, _, _)
ReadRecords(src, plan, j, n, base, failAt, acc) ==
    IF j = n \/ acc.status # "ok" THEN acc
    ELSE IF base + j = failAt THEN [acc EXCEPT !.status = "err"]
    ELSE ReadRecords(src, plan, j + 1, n, base, failAt,
            AfterRecord(acc, RunPlan(src, plan, 1,
                [status |-> "ok", cur |-> acc.cur, bits |-> NoBits,
                 rec |-> EmptyRecord])))

ReadChunk(src, plan, n, cur0, base, failAt) ==
    ReadRecords(src, plan, 0, n, base, failAt,
                [status |-> "ok", cur |-> cur0, recs |-> << >>, cursors |-> << >>])

\* a chunk count that drops the last, partial chunk
NumChunksFloor(c, n) == n \div c

\* a chunk that always holds chunk_size records
PointsInChunkFull(c, n, chunk_index) == c

\* num_chunks = (num_points_to_read + (chunk_size - 1)) / chunk_size, for the
\* chunk size c
NumChunksOf(c, n) == (n + c - 1) \div c

\* num_points_in_chunk = min(chunk_size, num_points_to_read - chunk_index * chunk_size)
PointsInChunkOf(c, n, chunk_index) == Min(c, n - chunk_index * c)

NumChunks(n) == NumChunksOf(ChunkSize, n)

PointsInChunk(n, chunk_index) == PointsInChunkOf(ChunkSize, n, chunk_index)

\* a call that pushes what a chunk has decoded also when the chunk has failed
AfterChunkPushesPartial(acc, r, pos, m) ==
    [status  |-> r.status,
     pos     |-> pos,
     pushed  |-> acc.pushed \o r.recs,
     cursors |-> acc.cursors \o r.cursors,
     chunks  |-> Append(acc.chunks, m)]

\* the call after its next chunk r of m records: the chunk is pushed to the
\* caller's buffer (push_points_interleaved) when it was read without error
AfterChunk(acc, r, pos, m) ==
    [status  |-> r.status,
     pos     |-> pos,
     pushed  |-> IF r.status = "ok" THEN acc.pushed \o r.recs ELSE acc.pushed,
     cursors |-> acc.cursors \o r.cursors,
     chunks  |-> Append(acc.chunks, m)]

LasAfterChunk(acc, r, m) == AfterChunk(acc, r, r.cur, m)

\* RawLASReader::read_into_{default,custom}_layout, the loop over the chunks: a
\* chunk is read from the stream where the previous one ended
RECURSIVE LasChunksOf(_, _, _, _, _, _, _, _)
LasChunksOf(c, plan, count, size, n, chunk_index, failAt, acc) ==
    IF chunk_index = NumChunksOf(c, n) \/ acc.status # "ok" THEN acc
    ELSE LasChunksOf(c, plan, count, size, n, chunk_index + 1, failAt,
            LasAfterChunk(acc,
                ReadChunk(LasSource(count, size), plan,
                          PointsInChunkOf(c, n, chunk_index),
                          acc.pos, chunk_index * c, failAt),
                PointsInChunkOf(c, n, chunk_index)))

\* with chunk_size = ChunkSize
LasChunks(plan, count, size, n, chunk_index, failAt, acc) ==
    LasChunksOf(ChunkSize, plan, count, size, n, chunk_index, failAt, acc)

\* RawLAZReader::read_into_{default,custom}_layout: decompress_many fills the
\* prefix of the decompression buffer with the chunk's records and moves the
\* decompressor on by as many points (it fails at failAt, and when the stream has
\* no more points); the records are then decoded from the start of the buffer
RECURSIVE LazChunksOf(_, _, _, _, _, _, _, _)
LazChunksOf(c, plan, count, size, n, chunk_index, failAt, acc) ==
    IF chunk_index = NumChunksOf(c, n) \/ acc.status # "ok" THEN acc
    ELSE LET m    == PointsInChunkOf(c, n, chunk_index)
             base == chunk_index * c
         IN  IF (failAt >= base /\ failAt < base + m) \/ acc.pos + m > count
             THEN [acc EXCEPT !.status = "err", !.chunks = Append(@, m)]
             ELSE LazChunksOf(c, plan, count, size, n, chunk_index + 1, failAt,
                    AfterChunk(acc,
                        ReadChunk(LazSourceOf(c, acc.pos, m, chunk_index, size), plan,
                                  m, 0, base, NoFailure),
                        acc.pos + m, m))

\* with chunk_size = ChunkSize
LazChunks(plan, count, size, n, chunk_index, failAt, acc) ==
    LazChunksOf(ChunkSize, plan, count, size, n, chunk_index, failAt, acc)

NoChunks(pos) ==
    [status |-> "ok", pos |-> pos, pushed |-> << >>, cursors |-> << >>,
     chunks |-> << >>]

-----------------------------------------------------------------------------
(* The stream's header, as the external header parser reports it *)

\* las_rs Format::len(): the sum of the widths of the format's on-disk fields
FormatLen(f) ==
    20 + (IF IsExtended(f) THEN 2 ELSE 0) + (IF HasGpsTime(f) THEN 8 ELSE 0)
       + (IF HasColor(f) THEN 6 ELSE 0) + (IF HasNir(f) THEN 2 ELSE 0)
       + (IF HasWaveform(f) THEN 29 ELSE 0)

\* The target layouts a caller passes to read_into
SingleAttributes ==
    { << Attr("Position3D", "Vec3f64") >>, << Attr("Intensity", "U16") >>,
      << Attr("ReturnNumber", "U8") >>, << Attr("NumberOfReturns", "U8") >>,
      << Attr("ClassificationFlags", "U8") >>, << Attr("ScannerChannel", "U8") >>,
      << Attr("ScanDirectionFlag", "Bool") >>, << Attr("EdgeOfFlightLine", "Bool") >>,
      << Attr("Classification", "U8") >>, << Attr("ScanAngleRank", "I8") >>,
      << Attr("UserData", "U8") >>, << Attr("PointSourceID", "U16") >>,
      << Attr("GpsTime", "F64") >>, << Attr("ColorRGB", "Vec3u16") >>,
      << Attr("NIR", "U16") >>, << Attr("WavePacketDescriptorIndex", "U8") >>,
      << Attr("WaveformDataOffset", "U64") >>, << Attr("WaveformPacketSize", "U32") >>,
      << Attr("ReturnPointWaveformLocation", "F32") >>,
      << Attr("WaveformParameters", "Vec3f32") >> }

\* the layout of test_raw_las_reader_read_into_different_attribute_interleaved
TestLayout ==
    << Attr("Position3D", "Vec3f32"), Attr("Classification", "U32"),
       Attr("PointSourceID", "U16"), Attr("WaveformParameters", "Vec3f32") >>

\* a target layout with an attribute of the caller's own between attributes of
\* the LAS formats
CustomLayout ==
    << Attr("Custom", "U32"), Attr("Intensity", "U16"), Attr("Classification", "U8") >>

TargetLayouts ==
    { NaturalLayout(f) : f \in Formats } \cup SingleAttributes
        \cup { << >>, TestLayout, CustomLayout }

SeekOrigins == { "Start", "End", "Current" }

\* the offsets of a SeekFrom: u64 for Start, i64 for End and Current
SeekOffsets(origin) ==
    IF origin = "Start"
    THEN (0..(MaxPoints + 1)) \cup { MaxI64, MaxI64 + 1, MaxU64 }
    ELSE IF origin = "End"
    THEN ((0 - (MaxPoints + 1))..1) \cup { MinI64, MaxI64 }
    ELSE { 0 - (MaxPoints + 1), 0 - 2, 0 - 1, 0, 1, 2, MaxPoints + 1, MinI64, MaxI64 }

-----------------------------------------------------------------------------
(* State *)

NoCall ==
    [op |-> "none", result |-> "none", ret |-> 0, count |-> 0, layout |-> << >>,
     origin |-> "none", offset |-> 0, resolved |-> 0, fail |-> FALSE,
     fail_at |-> NoFailure,
     path |-> "none", pre_index |-> 0, pre_pos |-> 0, did_seek |-> FALSE,
     cursors |-> << >>, chunks |-> << >>]

Init ==
    /\ kind \in { "las", "laz" }
    /\ point_format \in Formats
    /\ point_count \in 0..MaxPoints
    /\ \E extra \in { 0, MaxExtra } :
          size_of_point_in_file = FormatLen(point_format) + extra
    /\ has_laszip_vlr \in (IF kind = "laz" THEN BOOLEAN ELSE { FALSE })
    /\ phase = "closed"
    /\ current_point_index = 0
    /\ reader_pos = 0
    /\ decompressor_created = FALSE
    /\ last = NoCall
    /\ buffer = << >>

\* RawLASReader::from_read: the reader is positioned at the first point
LasFromRead ==
    /\ phase = "closed" /\ kind = "las"
    /\ phase' = "open"
    /\ current_point_index' = 0
    /\ reader_pos' = OffsetToFirstPoint
    /\ last' = [NoCall EXCEPT !.op = "open", !.result = "ok"]
    /\ UNCHANGED << header, decompressor_created, buffer >>

\* an open that does not reject the extended formats
LazOpenOutcomeNoExtended(f, vlr) ==
    IF HasWaveform(f) THEN "unsupported_waveform"
    ELSE IF ~vlr THEN "no_laszip_vlr"
    ELSE "ok"

\* The outcome of RawLAZReader::from_read for a format
LazOpenOutcome(f, vlr) ==
    IF HasWaveform(f) THEN "unsupported_waveform"
    ELSE IF IsExtended(f) THEN "unsupported_extended"
    ELSE IF ~vlr THEN "no_laszip_vlr"
    ELSE "ok"

\* RawLAZReader::from_read
LazFromRead ==
    /\ phase = "closed" /\ kind = "laz"
    /\ LET outcome == LazOpenOutcome(point_format, has_laszip_vlr) IN
        /\ phase' = IF outcome = "ok" THEN "open" ELSE "open_failed"
        /\ decompressor_created' = (outcome = "ok")
        /\ last' = [NoCall EXCEPT !.op = "open", !.result = outcome]
    /\ current_point_index' = 0
    /\ reader_pos' = 0
    /\ UNCHANGED << header, buffer >>

\* remaining_points
RemainingPoints == point_count - current_point_index

\* num_points_to_read = usize::min(count, self.remaining_points())
PointsToRead(count) == Min(count, RemainingPoints)

\* a dispatch that never takes the default path
UsesCustomPathAlways(target) == TRUE

\* read_into: the dispatch on the layout, then read_into_{default,custom}_layout
UsesCustomPath(target) == target # NaturalLayout(point_format)

ReadIntoOutcome(target, count, failAt) ==
    LET n    == PointsToRead(count)
        plan == IF kind = "las"
                THEN (IF UsesCustomPath(target)
                      THEN LasCustomPlan(point_format, target)
                      ELSE LasDefaultPlan(point_format))
                ELSE (IF UsesCustomPath(target)
                      THEN LazCustomPlan(point_format, target)
                      ELSE LazDefaultPlan(point_format))
    IN  IF n = 0 THEN NoChunks(reader_pos)
        ELSE IF kind = "las"
        THEN LasChunks(plan, point_count, size_of_point_in_file, n, 0, failAt,
                       NoChunks(reader_pos))
        ELSE LazChunks(plan, point_count, size_of_point_in_file, n, 0, failAt,
                       NoChunks(reader_pos))

ReadEffect(op, target, requested, count, failAt) ==
    \E r \in { ReadIntoOutcome(target, count, failAt) } :
    LET n == PointsToRead(count)
    IN  /\ reader_pos' = r.pos
        /\ current_point_index' =
              IF r.status = "ok" THEN current_point_index + n ELSE current_point_index
        /\ phase' = IF r.status = "panic" THEN "panicked" ELSE phase
        /\ buffer' = IF op = "read" /\ r.status # "ok" THEN << >> ELSE r.pushed
        /\ last' = [NoCall EXCEPT !.op = op, !.result = r.status,
                                  !.ret = IF r.status = "ok" THEN n ELSE 0,
                                  !.count = requested, !.layout = target,
                                  !.fail = (failAt # NoFailure),
                                  !.fail_at = failAt,
                                  !.path = IF n = 0 THEN "none"
                                           ELSE IF UsesCustomPath(target)
                                           THEN "custom" ELSE "default",
                                  !.pre_index = current_point_index,
                                  !.pre_pos = reader_pos,
                                  !.cursors = r.cursors, !.chunks = r.chunks]
        /\ UNCHANGED << header, decompressor_created >>

\* The end of the point data.  A read at a position behind it only fails, and
\* the skipped fields of the custom path move the stream further on each time:
\* the model stops reading there, which bounds reader_pos.
StreamEnd == OffsetToFirstPoint + point_count * size_of_point_in_file

Readable == phase = "open" /\ (kind = "las" => reader_pos <= StreamEnd)

\* PointReader::read: a new buffer with the reader's own layout, then read_into.
\* failAt: the record of the call at which the source's read fails (or NoFailure)
Read(count, failAt) ==
    /\ Readable
    /\ failAt < PointsToRead(count)
    /\ ReadEffect("read", NaturalLayout(point_format), count,
                  PointsToRead(count), failAt)

\* PointReader::read_into, into an empty buffer of the layout target
ReadInto(target, count, failAt) ==
    /\ Readable
    /\ failAt < PointsToRead(count)
    /\ ReadEffect("read_into", target, count, count, failAt)

\* a resolution that takes an End offset as a distance before the end
ResolvedPositionEndSubtracts(origin, offset) ==
    CASE origin = "Start" -> AsI64(offset)
      [] origin = "End" -> WrapI64(point_count - offset)
      [] origin = "Current" -> WrapI64(current_point_index + offset)

\* the position seek_point resolves: new_position
ResolvedPosition(origin, offset) ==
    CASE origin = "Start" -> AsI64(offset)
      [] origin = "End" -> WrapI64(point_count + offset)
      [] origin = "Current" -> WrapI64(current_point_index + offset)

\* a seek that lets a negative position through
IsInvalidSeekNever(new_position) == FALSE

\* "if new_position < 0 { panic!(...) }"
IsInvalidSeek(new_position) == new_position < 0

\* a seek that does not clamp
ClampedPositionUnclamped(new_position) == new_position

\* clamped_position = min(point_count as i64, new_position) as usize
ClampedPosition(new_position) == Min(point_count, new_position)

\* a seek that repositions the stream whatever the cursor
NeedsSeekAlways(clamped_position) == TRUE

\* "if self.current_point_index != clamped_position"
NeedsSeek(clamped_position) == current_point_index # clamped_position

\* where the underlying seek of seek_point goes
SeekTarget(clamped_position) ==
    IF kind = "las"
    THEN OffsetToFirstPoint + clamped_position * size_of_point_in_file
    ELSE clamped_position

\* a seek that stores the index before the underlying seek has succeeded
IndexAfterFailedSeekMoved(clamped_position) == clamped_position

\* "self.reader.seek(..)?; self.current_point_index = clamped_position": the
\* error of the seek returns before the assignment
IndexAfterFailedSeek(clamped_position) == current_point_index

\* SeekToPoint::seek_point; seekFails: the underlying seek returns an error
SeekPoint(origin, offset, seekFails) ==
    /\ phase = "open"
    /\ LET new_position == ResolvedPosition(origin, offset)
           clamped_position == ClampedPosition(new_position)
           call == [NoCall EXCEPT !.op = "seek_point", !.origin = origin,
                                  !.offset = offset, !.resolved = new_position,
                                  !.pre_index = current_point_index,
                                  !.pre_pos = reader_pos]
       IN  IF IsInvalidSeek(new_position)
           THEN /\ phase' = "panicked"
                /\ last' = [call EXCEPT !.result = "panic"]
                /\ UNCHANGED << current_point_index, reader_pos >>
           ELSE IF NeedsSeek(clamped_position)
           THEN IF seekFails
                THEN /\ last' = [call EXCEPT !.result = "err", !.fail = TRUE,
                                             !.did_seek = TRUE]
                     /\ current_point_index' = IndexAfterFailedSeek(clamped_position)
                     /\ UNCHANGED << phase, reader_pos >>
                ELSE /\ reader_pos' = SeekTarget(clamped_position)
                     /\ current_point_index' = clamped_position
                     /\ last' = [call EXCEPT !.result = "ok", !.did_seek = TRUE,
                                             !.ret = clamped_position]
                     /\ UNCHANGED phase
           ELSE /\ ~seekFails
                /\ last' = [call EXCEPT !.result = "ok", !.ret = current_point_index]
                /\ UNCHANGED << phase, current_point_index, reader_pos >>
    /\ buffer' = << >>
    /\ UNCHANGED << header, decompressor_created >>

Counts == 0..(MaxPoints + 1)

\* the layouts the callers of the facade pass: the reader's own, the one of the
\* tests, and one that asks for a single optional attribute
FacadeLayouts(f) ==
    { NaturalLayout(f), TestLayout, << Attr("GpsTime", "F64") >> }

\* The readers in use, on streams whose reads and seeks do not fail
Next ==
    \/ LasFromRead
    \/ LazFromRead
    \/ \E count \in Counts : Read(count, NoFailure)
    \/ \E target \in FacadeLayouts(point_format), count \in Counts :
          ReadInto(target, count, NoFailure)
    \/ \E origin \in SeekOrigins :
          \E offset \in SeekOffsets(origin) : SeekPoint(origin, offset, FALSE)

\* the formats of the streams the facade is driven on: with and without the
\* optional attributes, regular and extended
FacadeFormats == { 0, 3, 6 }

InitFacade == Init /\ point_format \in FacadeFormats

Spec == InitFacade /\ [][Next]_vars

\* The decode paths alone: one read_into, with any of the target layouts, on a
\* reader that has just been opened
FirstReadInto(target, count) ==
    /\ last.op = "open"
    /\ ReadInto(target, count, NoFailure)

NextDecode ==
    \/ LasFromRead
    \/ LazFromRead
    \/ \E target \in TargetLayouts, count \in Counts : FirstReadInto(target, count)

SpecDecode == Init /\ [][NextDecode]_vars

\* The readers in use on streams whose reads and seeks may fail: any call may
\* meet an I/O error of the underlying stream or of the decompressor
Failures == { NoFailure, 0, 1, ChunkSize }

NextIO ==
    \/ LasFromRead
    \/ LazFromRead
    \/ \E count \in Counts, failAt \in Failures : Read(count, failAt)
    \/ \E target \in FacadeLayouts(point_format), count \in Counts, failAt \in Failures :
          ReadInto(target, count, failAt)
    \/ \E origin \in SeekOrigins :
          \E offset \in SeekOffsets(origin), seekFails \in BOOLEAN :
             SeekPoint(origin, offset, seekFails)

\* the formats of the streams read under I/O failures
IOFormats == { 0, 3, 6 }

\* streams of MaxPoints records without extra bytes
InitIO ==
    /\ Init
    /\ point_format \in IOFormats
    /\ point_count = MaxPoints
    /\ size_of_point_in_file = FormatLen(point_format)

SpecIO == InitIO /\ [][NextIO]_vars

\* The decode paths on target layouts that declare attributes of the LAS
\* formats with a datatype of their own
OtherDatatypeLayouts ==
    { TestLayout, << Attr("GpsTime", "F32") >>, << Attr("Intensity", "U32") >>,
      << Attr("ClassificationFlags", "U16") >>, << Attr("NIR", "U16") >>,
      << Attr("Position3D", "Vec3f32"), Attr("ColorRGB", "Vec3f32") >> }

NextLayouts ==
    \/ LasFromRead
    \/ LazFromRead
    \/ \E target \in OtherDatatypeLayouts, count \in Counts : FirstReadInto(target, count)

SpecLayouts == Init /\ [][NextLayouts]_vars

\* The decoding of the bit attributes alone, on any bytes the stream can hold:
\* read_u8 yields 0..255
Bytes == 0..255

\* read_next_bit_attributes on a record whose flag bytes are b0 (and b1 with
\* the two-byte packing of the extended formats)
ReadNextBitAttributesOn(b0, b1) ==
    /\ LET extended == IsExtended(point_format)
           bytes == IF extended THEN << b0, b1 >> ELSE << b0 >>
       IN  last' = [op |-> "read_next_bit_attributes", result |-> "ok",
                    extended |-> extended, bytes |-> bytes,
                    bits |-> ReadNextBitAttributes(extended, bytes)] @@ NoCall
    /\ UNCHANGED << header, phase, current_point_index, reader_pos,
                    decompressor_created, buffer >>

\* one decoding per stream, of any flag bytes
NextBits ==
    /\ last.op = "none"
    /\ \E b0 \in Bytes :
          \E b1 \in (IF IsExtended(point_format) THEN Bytes ELSE { 0 }) :
              ReadNextBitAttributesOn(b0, b1)

\* one stream per reader and per packing
InitBits ==
    /\ Init
    /\ point_format \in { 0, 6 }
    /\ point_count = MaxPoints
    /\ size_of_point_in_file = FormatLen(point_format)
    /\ has_laszip_vlr = (kind = "laz")

SpecBits == InitBits /\ [][NextBits]_vars

-----------------------------------------------------------------------------
(* Properties *)

\* The index a seek_point call c resolves, as a mathematical integer: the offset
\* from the start, the end (point_count) or the cursor the call found
SeekIndex(c) ==
    CASE c.origin = "Start" -> c.offset
      [] c.origin = "End" -> point_count + c.offset
      [] c.origin = "Current" -> c.pre_index + c.offset

\* C1: on both readers, after open and after any sequence of read, read_into
\* and seek_point calls, successful or failed, the logical index is within
\* 0..point_count; it is 0 right after open; and remaining_points() is
\* point_count - index, which never underflows.
C1_IndexInRange ==
    phase \in { "open", "panicked" } =>
        /\ current_point_index \in 0..point_count
        /\ RemainingPoints = point_count - current_point_index
        /\ RemainingPoints \in 0..point_count
        /\ (last.op = "open" => current_point_index = 0)

\* a call has failed on a reader whose cursor is inside the stream
C1_Witness ==
    /\ last.op \in { "read", "read_into", "seek_point" }
    /\ last.result = "err"
    /\ current_point_index > 0 /\ current_point_index < point_count

\* C2: read(count) returns a buffer of the source's natural layout that holds
\* exactly min(count, remaining) records, and the index advances by that
\* number; reading all N records of a stream leaves the index at N and no
\* points remaining.
C2_ReadReturnsMinCountRemaining ==
    (last.op = "read" /\ last.result = "ok") =>
        LET n == Min(last.count, point_count - last.pre_index) IN
        /\ Len(buffer) = n
        /\ last.ret = n
        /\ current_point_index = last.pre_index + n
        /\ last.layout = NaturalLayout(point_format)
        /\ \A i \in 1..Len(buffer) :
              /\ DOMAIN buffer[i] = AttrNames(NaturalLayout(point_format))
              /\ \A a \in DOMAIN buffer[i] : buffer[i][a].conv = << >>
        /\ (last.pre_index = 0 /\ last.count = point_count =>
              current_point_index = point_count /\ RemainingPoints = 0)

\* all the records of a stream of several chunks have been read in one call
C2_Witness ==
    /\ last.op = "read" /\ last.result = "ok"
    /\ last.pre_index = 0 /\ last.count = point_count
    /\ point_count > ChunkSize
    /\ Len(buffer) = point_count
    /\ current_point_index = point_count

C3_SeekClamps ==
    (last.op = "seek_point" /\ SeekIndex(last) \in 0..MaxI64) =>
        /\ last.result = "ok"
        /\ current_point_index = Min(SeekIndex(last), point_count)
        /\ last.ret = current_point_index

C3_PastEnd ==
    /\ last.op = "seek_point"
    /\ SeekIndex(last) \in (point_count + 1)..MaxI64

C3_ReadsNothing ==
    /\ last.result = "ok"
    /\ last.ret = 0
    /\ buffer = << >>
    /\ current_point_index = point_count

\* C3: a seek_point whose resolved index r is >= 0 (r as the signed 64-bit
\* position the call resolves) sets the index to min(r, point_count) and
\* returns that value; when r > point_count the result is point_count, and a
\* read issued immediately afterwards returns zero records.
C3_SeekSetsMinOfResolvedAndCount ==
    [][ /\ C3_SeekClamps'
        /\ (C3_PastEnd /\ last'.op = "read") => C3_ReadsNothing'
      ]_vars

\* a seek from inside the stream has resolved a position past the end
C3_Witness ==
    /\ C3_PastEnd
    /\ last.pre_index < point_count
    /\ last.did_seek
    /\ current_point_index = point_count
    /\ last.ret = point_count

\* The records a single read(point_count) returns on a reader that has just
\* been opened on the stream
WholeStream ==
    (IF kind = "las"
     THEN LasChunks(LasDefaultPlan(point_format), point_count, size_of_point_in_file,
                    point_count, 0, NoFailure, NoChunks(OffsetToFirstPoint))
     ELSE LazChunks(LazDefaultPlan(point_format), point_count, size_of_point_in_file,
                    point_count, 0, NoFailure, NoChunks(0))).pushed

\* C4: for every stream of N records, every index p in 0..N reached by any
\* seek_point (from any prior cursor position) and every k, a following
\* read(k) returns exactly the records p .. min(p + k, N) - 1 that a single
\* read(N) from the start of the stream returns, in the same order.
C4_ReadAfterSeekReturnsRecordsFromIndex ==
    [][ (last.op = "seek_point" /\ last.result = "ok" /\ last'.op = "read") =>
            /\ last'.result = "ok"
            /\ buffer' = SubSeq(WholeStream, current_point_index + 1,
                                Min(current_point_index + last'.count, point_count))
      ]_vars

\* C5: a seek_point whose resolved index is negative is a panic, not an Err
\* return, and it happens before the logical index or the stream position
\* have changed.
C5_NegativeSeekPanics ==
    (last.op = "seek_point" /\ SeekIndex(last) < 0) =>
        /\ last.result = "panic"
        /\ phase = "panicked"
        /\ ~last.did_seek
        /\ current_point_index = last.pre_index
        /\ reader_pos = last.pre_pos

\* a seek relative to a cursor inside the stream has resolved a negative index
C5_Witness ==
    /\ last.op = "seek_point" /\ last.origin = "Current"
    /\ last.pre_index > 0
    /\ SeekIndex(last) < 0
    /\ phase = "panicked"

\* C6: a seek_point whose clamped target equals the current index performs no
\* seek on the underlying stream, leaves index and stream position as they
\* are, and returns the current index.
C6_SeekToCurrentIndexIsNoOp ==
    (/\ last.op = "seek_point"
     /\ SeekIndex(last) \in 0..MaxI64
     /\ Min(SeekIndex(last), point_count) = last.pre_index) =>
        /\ last.result = "ok"
        /\ ~last.did_seek
        /\ reader_pos = last.pre_pos
        /\ current_point_index = last.pre_index
        /\ last.ret = last.pre_index

\* a seek to the index the cursor is at, inside the stream
C6_Witness ==
    /\ last.op = "seek_point" /\ last.result = "ok"
    /\ SeekIndex(last) = last.pre_index
    /\ last.pre_index > 0 /\ last.pre_index < point_count
    /\ ~last.did_seek

\* the call the default path of the uncompressed reader makes of the last
\* request: the same stream, the same position, the same number of records
LasDefaultPathOfLast ==
    LasChunks(LasDefaultPlan(point_format), point_count, size_of_point_in_file,
              Min(last.count, point_count - last.pre_index), 0, NoFailure,
              NoChunks(last.pre_pos))

C7_SameAsDefault(d) ==
    /\ last.result = d.status
    /\ reader_pos = d.pos
    /\ last.cursors = d.cursors
    /\ Len(buffer) = Len(d.pushed)

\* C7: on the uncompressed reader, for every format 0..10 and every target
\* layout (also one that declares none of the bit attributes), the custom
\* path consumes for every record the same source bytes as the default path:
\* every record starts where it starts on the default path, and the call
\* leaves the stream where the default path leaves it.
C7_LasCustomPathConsumesAsDefault ==
    (kind = "las" /\ last.op = "read_into" /\ last.path = "custom") =>
        C7_SameAsDefault(LasDefaultPathOfLast)

\* several records of a format with optional fields, read into a layout that
\* declares none of the format's attributes
C7_Witness ==
    /\ kind = "las" /\ last.op = "read_into" /\ last.path = "custom"
    /\ point_format = 10
    /\ last.layout = << >>
    /\ Len(last.cursors) = MaxPoints
    /\ last.result = "ok"

\* the optional attributes a format does not carry
WaveformAttributes ==
    { "WavePacketDescriptorIndex", "WaveformDataOffset", "WaveformPacketSize",
      "ReturnPointWaveformLocation", "WaveformParameters" }

SourceLacks(f, a) ==
    \/ a = "GpsTime" /\ f \in { 0, 2 }
    \/ a = "ColorRGB" /\ f \in { 0, 1, 4, 6, 9 }
    \/ a = "NIR" /\ f \notin { 8, 10 }
    \/ a \in WaveformAttributes /\ f \notin { 4, 5, 9, 10 }
    \/ a \in { "ClassificationFlags", "ScannerChannel" } /\ f \in 0..5

IsZero(v) == \A i \in DOMAIN v : v[i] = 0

\* C8: on both readers, for every optional attribute the source format lacks
\* (gps_time, color, nir, each waveform field; classification_flags and
\* scanner_channel on a non-extended format), a read_into whose target layout
\* declares the attribute writes the zero value for it in every record, never
\* bytes taken from the source.  Stated for streams whose records carry no
\* extra bytes.
C8_AbsentAttributesAreZero ==
    (/\ last.op = "read_into" /\ last.result = "ok"
     /\ size_of_point_in_file = FormatLen(point_format)) =>
        \A i \in 1..Len(buffer) : \A a \in DOMAIN buffer[i] :
            SourceLacks(point_format, a) => IsZero(buffer[i][a].v)

\* C9: on the custom path of the compressed reader, for the formats 0..3 and
\* every target layout, the cursor over the decompressed chunk advances per
\* record by exactly the record width: record i of a chunk is decoded from
\* byte i * record_width, whether or not the target declares gps_time or nir
\* that the source lacks.  Stated for streams whose records carry no extra
\* bytes, where the record width is the sum of the format's field widths.
C9_LazCursorAdvancesByRecordWidth ==
    (/\ kind = "laz" /\ last.op = "read_into" /\ last.path = "custom"
     /\ size_of_point_in_file = FormatLen(point_format)) =>
        \A j \in 1..Len(last.cursors) :
            last.cursors[j] = ((j - 1) % ChunkSize) * size_of_point_in_file

\* C10: opening a compressed stream whose format is extended or carries wave
\* packets (the format ids 4..10) fails at open with an explicit error that
\* names the unsupported feature, before the decompressor is created; only
\* the formats 0..3 yield a compressed reader.
C10_LazOpenRejectsFormats4To10 ==
    (kind = "laz" /\ phase # "closed") =>
        /\ point_format \in 4..10 =>
              /\ phase = "open_failed"
              /\ last.result \in { "unsupported_waveform", "unsupported_extended" }
              /\ ~decompressor_created
        /\ phase = "open" => point_format \in 0..3 /\ decompressor_created

\* a compressed stream of an extended format that carries the LASzip VLR has
\* been refused
C10_Witness ==
    /\ kind = "laz" /\ point_format = 6 /\ has_laszip_vlr
    /\ phase = "open_failed"
    /\ last.op = "open" /\ last.result = "unsupported_extended"
    /\ ~decompressor_created

RECURSIVE SumOfPrefix(_, _)
SumOfPrefix(seq, k) == IF k = 0 THEN 0 ELSE SumOfPrefix(seq, k - 1) + seq[k]

\* C11: when a source read fails while a chunk is being decoded, read_into
\* returns the error at once without decoding further records, and none of
\* the records of that chunk (neither the ones decoded before the failure nor
\* a truncated one) is pushed to the caller's buffer: the buffer holds the
\* earlier, complete chunks of the call and nothing else, the failing chunk is
\* the last one the call has started, and no record at or behind the failing
\* one has been decoded.
C11_FailedChunkIsNotPushed ==
    (last.op = "read_into" /\ last.result = "err") =>
        LET k == Len(last.chunks) IN
        /\ k >= 1
        /\ \A i \in 1..(k - 1) : last.chunks[i] = ChunkSize
        /\ Len(buffer) = SumOfPrefix(last.chunks, k - 1)
        /\ Len(last.cursors) >= SumOfPrefix(last.chunks, k - 1)
        /\ Len(last.cursors) <= SumOfPrefix(last.chunks, k)
        /\ (last.fail_at # NoFailure => Len(last.cursors) <= last.fail_at)

\* a read has failed in the first chunk of a call after a record of the chunk
\* had been decoded
C11_Witness ==
    /\ last.op = "read_into" /\ last.result = "err"
    /\ last.fail_at = 1
    /\ Len(last.cursors) = 1
    /\ Len(last.chunks) = 1 /\ last.chunks[1] > 1
    /\ buffer = << >>

\* C12: when read or read_into returns an I/O error, no data decoded during
\* that operation has been committed to the caller's buffer: the buffer
\* (empty before the call) holds exactly the records it held before the call,
\* also when the request spans several chunks and the failure occurs in a
\* chunk after the first.
C12_NothingCommittedOnError ==
    (last.op \in { "read", "read_into" } /\ last.result = "err") =>
        buffer = << >>

\* the chunk sizes compared
ChunkSizes == 1..(MaxPoints + 1)

\* the decode plan of the last read_into
PlanOfLast ==
    IF kind = "las"
    THEN (IF UsesCustomPath(last.layout)
          THEN LasCustomPlan(point_format, last.layout)
          ELSE LasDefaultPlan(point_format))
    ELSE (IF UsesCustomPath(last.layout)
          THEN LazCustomPlan(point_format, last.layout)
          ELSE LazDefaultPlan(point_format))

\* the number of records the last read_into had to read
RequestOfLast == Min(last.count, point_count - last.pre_index)

\* what the last read_into yields when it is run with the chunk size c on the
\* state the call found
LastWithChunkSize(c) ==
    IF RequestOfLast = 0 THEN NoChunks(last.pre_pos)
    ELSE IF kind = "las"
    THEN LasChunksOf(c, PlanOfLast, point_count, size_of_point_in_file,
                     RequestOfLast, 0, NoFailure, NoChunks(last.pre_pos))
    ELSE LazChunksOf(c, PlanOfLast, point_count, size_of_point_in_file,
                     RequestOfLast, 0, NoFailure, NoChunks(last.pre_pos))

C13_SameOutput(o) ==
    /\ o.status = last.result
    /\ o.pushed = buffer
    /\ current_point_index =
          last.pre_index + (IF o.status = "ok" THEN RequestOfLast ELSE 0)

\* C13: the output of read_into does not depend on the chunk size: for every
\* stream, request count and target layout, decoding with any chunk size
\* c >= 1 yields the same sequence of records in the caller's buffer and the
\* same final point index as decoding with the reader's chunk size.  Stated
\* for streams whose records carry no extra bytes.
C13_OutputIndependentOfChunkSize ==
    (/\ last.op = "read_into" /\ last.fail_at = NoFailure
     /\ size_of_point_in_file = FormatLen(point_format)) =>
        \A c \in ChunkSizes : C13_SameOutput(LastWithChunkSize(c))

\* the source the record i of the last call's buffer was decoded from: the
\* stream, or the decompression buffer of the record's chunk
SourceOfRecord(i) ==
    IF kind = "las" THEN LasSource(point_count, size_of_point_in_file)
    ELSE LET chunk_index == (i - 1) \div ChunkSize IN
         LazSource(last.pre_pos + chunk_index * ChunkSize,
                   last.chunks[chunk_index + 1], chunk_index, size_of_point_in_file)

\* the 4 bytes of an axis (1..3) of record i, as an unsigned little-endian integer
LocalInteger(i, axis) ==
    LET p == last.cursors[i] + 4 * (axis - 1)
        B(k) == SourceByte(SourceOfRecord(i), p + k)
    IN  B(0) + 256 * B(1) + 65536 * B(2) + 16777216 * B(3)

\* the 12 coordinate bytes of record i
CoordinateBytes(i) == SourceBytes(SourceOfRecord(i), last.cursors[i], 12)

C14_Doubles(b) ==
    \A axis \in 1..3 :
        WorldSpacePositionWith(b, << 2, 2, 2 >>, << 0, 0, 0 >>)[axis]
            = 2 * WorldSpacePositionWith(b, << 1, 1, 1 >>, << 0, 0, 0 >>)[axis]

\* C14: in all four decode paths (default / custom, uncompressed / compressed)
\* each decoded coordinate equals local_integer * scale + offset, where
\* local_integer is the record's 4-byte little-endian value of that axis read
\* as an unsigned 32-bit integer and scale and offset are the header values
\* of that same axis; with offset 0, doubling the scale doubles the decoded
\* coordinate.
C14_CoordinateIsLocalTimesScalePlusOffset ==
    last.op \in { "read", "read_into" } =>
        \A i \in 1..Len(buffer) :
            "Position3D" \in DOMAIN buffer[i] =>
                /\ \A axis \in 1..3 :
                      buffer[i]["Position3D"].v[axis] =
                          LocalInteger(i, axis) * PointScales[axis] + PointOffsets[axis]
                /\ C14_Doubles(CoordinateBytes(i))

\* records of several chunks decoded on the custom path of the compressed
\* reader into a layout with positions
C14_Witness ==
    /\ kind = "laz" /\ last.op = "read_into" /\ last.path = "custom"
    /\ Len(buffer) = MaxPoints
    /\ "Position3D" \in DOMAIN buffer[MaxPoints]

\* C15: bit-attribute decoding matches the bit ranges for every input: with
\* the one-byte packing, for every byte b, return_number = b mod 8,
\* number_of_returns = (b div 8) mod 8, scan_direction_flag = bit 6,
\* edge_of_flight_line = bit 7; with the two-byte packing, for every pair
\* (b0, b1), return_number = b0 mod 16, number_of_returns = b0 div 16,
\* classification_flags = b1 mod 16, scanner_channel = (b1 div 16) mod 4,
\* scan_direction_flag = bit 6 of b1, edge_of_flight_line = bit 7 of b1.
C15_BitAttributesMatchBitRanges ==
    last.op = "read_next_bit_attributes" =>
        LET b0 == last.bytes[1]
            bits == last.bits
        IN  IF last.extended
            THEN LET b1 == last.bytes[2] IN
                 /\ bits.ReturnNumber = b0 % 16
                 /\ bits.NumberOfReturns = b0 \div 16
                 /\ bits.ClassificationFlags = b1 % 16
                 /\ bits.ScannerChannel = (b1 \div 16) % 4
                 /\ bits.ScanDirectionFlag = (b1 \div 64) % 2
                 /\ bits.EdgeOfFlightLine = b1 \div 128
            ELSE /\ bits.ReturnNumber = b0 % 8
                 /\ bits.NumberOfReturns = (b0 \div 8) % 8
                 /\ bits.ScanDirectionFlag = (b0 \div 64) % 2
                 /\ bits.EdgeOfFlightLine = b0 \div 128

\* a pair of bytes with both flags set, scanner channel 2 and bits above it
C15_Witness ==
    /\ last.op = "read_next_bit_attributes" /\ last.extended
    /\ last.bytes = << 83, 233 >>
    /\ last.bits.ReturnNumber = 3 /\ last.bits.NumberOfReturns = 5
    /\ last.bits.ClassificationFlags = 9 /\ last.bits.ScannerChannel = 2
    /\ last.bits.ScanDirectionFlag = 1 /\ last.bits.EdgeOfFlightLine = 1

\* the width of the bit attributes a decode path reads
BitsWidth(plan) ==
    LET i == CHOOSE i \in 1..Len(plan) : plan[i].kind = "bits" IN plan[i].width

\* the bit fields of a record decoded from the flag bytes b0, b1 with the
\* packing of the format f: two bytes for 6..10, one byte for 0..5
C16_PackedAs(f, rec, b0, b1) ==
    /\ "ReturnNumber" \in DOMAIN rec =>
          rec["ReturnNumber"].v = << IF f \in 6..10 THEN b0 % 16 ELSE b0 % 8 >>
    /\ "NumberOfReturns" \in DOMAIN rec =>
          rec["NumberOfReturns"].v =
              << IF f \in 6..10 THEN b0 \div 16 ELSE (b0 \div 8) % 8 >>
    /\ ("ClassificationFlags" \in DOMAIN rec /\ f \in 6..10) =>
          rec["ClassificationFlags"].v = << b1 % 16 >>
    /\ ("ScannerChannel" \in DOMAIN rec /\ f \in 6..10) =>
          rec["ScannerChannel"].v = << (b1 \div 16) % 4 >>

\* the bit fields and the classification of record i of the last call, decoded
\* from src at the cursor cur: the classification is the byte after the flag
\* bytes
C16_RecordPacked(i, src, cur) ==
    /\ C16_PackedAs(point_format, buffer[i], SourceByte(src, cur + 14),
                    SourceByte(src, cur + 15))
    /\ "Classification" \in DOMAIN buffer[i] =>
          buffer[i]["Classification"].v =
              << SourceByte(src, cur + (IF point_format \in 6..10 THEN 16 ELSE 15)) >>

\* C16: for every format id 0..10, every decode path applies the two-byte
\* packing of the bit attributes exactly when the id is 6..10 and the one-byte
\* packing exactly when it is 0..5; the default path's point_format() > 5 and
\* the is_extended flag of the other paths never disagree, so that the two
\* packings are never applied to the same raw bytes.
C16_PackingFollowsFormat ==
    /\ \A f \in Formats :
          /\ (f > 5) = IsExtended(f)
          /\ IsExtended(f) = (f \in 6..10)
    /\ BitsWidth(LasDefaultPlan(point_format)) = (IF point_format \in 6..10 THEN 2 ELSE 1)
    /\ BitsWidth(LazDefaultPlan(point_format)) = (IF point_format \in 6..10 THEN 2 ELSE 1)
    /\ last.op \in { "read", "read_into" } =>
          /\ BitsWidth(PlanOfLast) = (IF point_format \in 6..10 THEN 2 ELSE 1)
          /\ \A i \in 1..Len(buffer) :
                C16_RecordPacked(i, SourceOfRecord(i), last.cursors[i])

\* a record of format 6 decoded on the default path of the uncompressed reader
\* from a first flag byte that the two packings decode differently
C16_Witness ==
    /\ kind = "las" /\ point_format = 6 /\ last.op = "read_into"
    /\ last.path = "default"
    /\ \E i \in 1..Len(buffer) :
          LET b0 == StreamByte(last.cursors[i] + 14) IN
          /\ b0 % 16 # b0 % 8
          /\ buffer[i]["ReturnNumber"].v = << b0 % 16 >>

\* C17: read_into takes the default decode path exactly when the caller's
\* buffer layout is structurally equal to the source's natural layout and the
\* custom path otherwise; read(count), which allocates its buffer with the
\* natural layout, always decodes through the default path.  A record of the
\* default path holds every attribute of the natural layout, unconverted.
C17_DefaultPathIffNaturalLayout ==
    (last.op \in { "read", "read_into" } /\ last.path # "none") =>
        /\ last.path \in { "default", "custom" }
        /\ (last.path = "default") = (last.layout = NaturalLayout(point_format))
        /\ last.op = "read" => last.path = "default"
        /\ last.path = "default" =>
              \A i \in 1..Len(buffer) :
                  /\ DOMAIN buffer[i] = AttrNames(NaturalLayout(point_format))
                  /\ \A a \in DOMAIN buffer[i] : buffer[i][a].conv = << >>

\* a read_into with the natural layout that decoded records on the default path
C17_Witness ==
    /\ last.op = "read_into" /\ last.layout = NaturalLayout(point_format)
    /\ last.path = "default" /\ last.result = "ok" /\ Len(buffer) = MaxPoints

\* where the source stands when it is at the point index: the byte position of
\* the stream, or the number of points the decompressor has passed
PositionOfIndex(index) ==
    IF kind = "las" THEN OffsetToFirstPoint + index * size_of_point_in_file
    ELSE index

\* what the last read_into yields as a function of the stream, the point index
\* at the start of the call, the count and the call's target layout alone
DecodeOfLast ==
    IF RequestOfLast = 0 THEN NoChunks(PositionOfIndex(last.pre_index))
    ELSE IF kind = "las"
    THEN LasChunks(PlanOfLast, point_count, size_of_point_in_file, RequestOfLast,
                   0, NoFailure, NoChunks(PositionOfIndex(last.pre_index)))
    ELSE LazChunks(PlanOfLast, point_count, size_of_point_in_file, RequestOfLast,
                   0, NoFailure, NoChunks(PositionOfIndex(last.pre_index)))

C18_SameRecords(d) == last.result = d.status /\ buffer = d.pushed

C19_StreamPositionFollowsIndex ==
    (kind = "las" /\ last.op \in { "open", "read", "read_into", "seek_point" }
        /\ last.result = "ok") =>
        reader_pos = OffsetToFirstPoint + current_point_index * size_of_point_in_file

\* the place in the point data the record i of the last call was decoded from:
\* the stream position, or the position in the decompressed point data
PlaceOfRecord(i) ==
    IF kind = "las" THEN last.cursors[i]
    ELSE (last.pre_pos + ((i - 1) \div ChunkSize) * ChunkSize) * size_of_point_in_file
             + last.cursors[i]

\* the passes of the last call are pushed in stream order: a record pushed
\* later was decoded further on in the point data, and a pushed position is
\* the position decoded at the record's place
C20_InStreamOrder ==
    /\ \A i \in 1..(Len(buffer) - 1) : PlaceOfRecord(i) < PlaceOfRecord(i + 1)
    /\ \A i \in 1..Len(buffer) :
          "Position3D" \in DOMAIN buffer[i] =>
              buffer[i]["Position3D"].v[1] =
                  LocalInteger(i, 1) * PointScales[1] + PointOffsets[1]

\* C20: for a request of n = min(count, remaining) >= 1 records and the chunk
\* size c, a read_into that returns Ok has run exactly ceil(n / c) inner
\* passes; every pass decoded between 1 and c records, the pass sizes sum to
\* exactly n, and the passes are pushed to the caller's buffer in stream
\* order; for n = 0 no pass runs, the stream is not touched and 0 is returned.
C20_PassesCoverRequest ==
    (last.op \in { "read", "read_into" } /\ last.result = "ok") =>
        LET n == RequestOfLast
            k == Len(last.chunks)
        IN  IF n = 0
            THEN /\ k = 0 /\ last.cursors = << >> /\ buffer = << >>
                 /\ reader_pos = last.pre_pos
                 /\ current_point_index = last.pre_index
                 /\ last.ret = 0
            ELSE /\ k * ChunkSize >= n /\ (k - 1) * ChunkSize < n
                 /\ \A j \in 1..k : last.chunks[j] \in 1..ChunkSize
                 /\ SumOfPrefix(last.chunks, k) = n
                 /\ Len(buffer) = n /\ Len(last.cursors) = n
                 /\ last.ret = n
                 /\ C20_InStreamOrder

\* a request of more than a chunk: a full pass and a pass of the rest
C20_Witness ==
    /\ last.op = "read_into" /\ last.result = "ok"
    /\ RequestOfLast = MaxPoints
    /\ Len(last.chunks) = 2 /\ last.chunks[1] = ChunkSize
    /\ last.chunks[2] = MaxPoints - ChunkSize
    /\ Len(buffer) = MaxPoints

\* the names of the written fields of a decode path, in the order of the walk
FieldOrder(plan) == [i \in 1..Len(plan) |-> plan[i].attr]

\* the index of the field attr in a decode path, and its width on disk
FieldIndex(plan, attr) == CHOOSE i \in 1..Len(plan) : plan[i].attr = attr

FieldWidth(plan, attr) == plan[FieldIndex(plan, attr)].width

\* a decode path consumes (reads, or skips for an undeclared attribute) after
\* the classification the scan angle (1) and the user data (1) of a regular
\* format, or the user data (1) and the scan angle (2) of an extended one
C21_PlanOrder(plan, f) ==
    LET c == FieldIndex(plan, "Classification") IN
    IF f \in 6..10
    THEN /\ plan[c + 1].attr = "UserData" /\ plan[c + 1].width = 1
         /\ plan[c + 2].attr = "ScanAngleRank" /\ plan[c + 2].width = 2
         /\ plan[c + 1].read \/ plan[c + 1].skip
         /\ plan[c + 2].read \/ plan[c + 2].skip
    ELSE /\ plan[c + 1].attr = "ScanAngleRank" /\ plan[c + 1].width = 1
         /\ plan[c + 2].attr = "UserData" /\ plan[c + 2].width = 1
         /\ plan[c + 1].read \/ plan[c + 1].skip
         /\ plan[c + 2].read \/ plan[c + 2].skip

\* the record i of the last call holds under ScanAngleRank and UserData the
\* bytes of the field of that name of the record decoded from src at cur
C21_Delivered(i, src, cur) ==
    LET after == cur + (IF point_format \in 6..10 THEN 17 ELSE 16) IN
    IF point_format \in 6..10
    THEN /\ "UserData" \in DOMAIN buffer[i] =>
               buffer[i]["UserData"].v = << SourceByte(src, after) >>
         /\ "ScanAngleRank" \in DOMAIN buffer[i] =>
               buffer[i]["ScanAngleRank"].v =
                   << SourceByte(src, after + 1), SourceByte(src, after + 2) >>
    ELSE /\ "ScanAngleRank" \in DOMAIN buffer[i] =>
               buffer[i]["ScanAngleRank"].v = << SourceByte(src, after) >>
         /\ "UserData" \in DOMAIN buffer[i] =>
               buffer[i]["UserData"].v = << SourceByte(src, after + 1) >>

\* C21: in every decode path the two fields after classification are read in
\* the order scan angle (1 byte) then user data (1 byte) for the formats 0..5,
\* and user data (1 byte) then scan angle (2 bytes) for the extended formats,
\* and each value read is delivered to the target attribute of the same name.
C21_ScanAngleAndUserDataInFormatOrder ==
    /\ C21_PlanOrder(LasDefaultPlan(point_format), point_format)
    /\ C21_PlanOrder(LazDefaultPlan(point_format), point_format)
    /\ last.op \in { "read", "read_into" } =>
          /\ C21_PlanOrder(LasCustomPlan(point_format, last.layout), point_format)
          /\ C21_PlanOrder(LazCustomPlan(point_format, last.layout), point_format)
          /\ \A i \in 1..Len(buffer) :
                C21_Delivered(i, SourceOfRecord(i), last.cursors[i])

\* records of an extended format decoded on the custom path into a layout
\* that declares both attributes
C21_Witness ==
    /\ kind = "las" /\ point_format = 6 /\ last.op = "read_into"
    /\ last.path = "custom" /\ Len(buffer) = MaxPoints
    /\ { "ScanAngleRank", "UserData" } \subseteq DOMAIN buffer[MaxPoints]
    /\ Len(buffer[MaxPoints]["ScanAngleRank"].v) = 2

\* the attributes the decode paths know: the fields of the LAS formats
WellKnownAttributes == AttrNames(NaturalLayout(10)) \cup AttrNames(NaturalLayout(5))

\* the bytes of a target record that a declared well-known attribute covers
CoveredOffsets(target) ==
    UNION { { SizeOfPrefix(target, k - 1) + j :
                j \in 0..(DatatypeSize(target[k].dt) - 1) } :
            k \in { k \in DOMAIN target : target[k].name \in WellKnownAttributes } }

\* the bytes of the chunk buffer that the walk of a chunk of n records may
\* write: target_slice = chunk_buffer[start_of_target_point_in_chunk + offset ..
\* + size] for every field that has a parser
ChunkBufferWrites(plan, target, n) ==
    UNION { { point_index * SizeOfPointEntry(target) + plan[k].parser.offset + j :
                j \in 0..(plan[k].parser.size - 1) } :
            point_index \in 0..(n - 1),
            k \in { k \in DOMAIN plan : plan[k].write } }

\* a chunk buffer created as zeros (vec![0; chunk_bytes]) after writes
ChunkBufferOf(target, written) ==
    [p \in 0..(ChunkSize * SizeOfPointEntry(target) - 1) |->
        IF p \in written THEN 1 ELSE 0]

\* the chunk buffer after the chunks 1..j of the last call: 0 for a byte that
\* no chunk has written
ChunkBufferAfterWalks(plan, j) ==
    ChunkBufferOf(last.layout,
                  UNION { ChunkBufferWrites(plan, last.layout, last.chunks[c]) :
                          c \in 1..j })

ChunkBufferAfter(j) == ChunkBufferAfterWalks(PlanOfLast, j)

C22_UncoveredBytesAreZero(j, chunk_buffer, uncovered, target_point_size) ==
    \A point_index \in 0..(last.chunks[j] - 1) :
        \A o \in uncovered :
            chunk_buffer[point_index * target_point_size + o] = 0

\* the fields a decode path writes and the attributes of the records pushed
\* are among the declared attributes
C22_WritesDeclaredOnly(plan, declared) ==
    /\ \A k \in DOMAIN plan : plan[k].write => plan[k].attr \in declared
    /\ \A i \in 1..Len(buffer) : DOMAIN buffer[i] \subseteq declared

\* C22: in the custom path, a well-known attribute that the target layout does
\* not declare causes no write to the chunk buffer: for every record of every
\* chunk, the bytes of the target record that no declared well-known attribute
\* covers keep the value zero, also when the chunk buffer is used again for the
\* later chunks of the call; the records pushed hold declared attributes only.
C22_UndeclaredAttributesWriteNothing ==
    (last.op = "read_into" /\ last.path = "custom") =>
        /\ \A j \in 1..Len(last.chunks) :
              C22_UncoveredBytesAreZero(j, ChunkBufferAfter(j),
                  (0..(SizeOfPointEntry(last.layout) - 1)) \ CoveredOffsets(last.layout),
                  SizeOfPointEntry(last.layout))
        /\ C22_WritesDeclaredOnly(PlanOfLast, AttrNames(last.layout) \cap WellKnownAttributes)

\* two chunks decoded into a layout with bytes that no well-known attribute
\* covers
C22_Witness ==
    /\ kind = "las" /\ last.op = "read_into" /\ last.path = "custom"
    /\ last.layout = CustomLayout /\ Len(last.chunks) = 2 /\ Len(buffer) = MaxPoints
    /\ CoveredOffsets(CustomLayout) = 4..6
    /\ ChunkBufferAfter(2)[0] = 0 /\ ChunkBufferAfter(2)[4] = 1

\* the bytes a decode path reads per record
RECURSIVE BytesRead(_, _)
BytesRead(plan, k) ==
    IF k = 0 THEN 0
    ELSE BytesRead(plan, k - 1) + (IF plan[k].read THEN plan[k].width ELSE 0)

\* the sum of the on-disk field widths of the formats 0..10
RecordWidths == << 20, 28, 26, 34, 57, 63, 30, 36, 38, 59, 67 >>

\* the optional groups of a format, in the order of the record, with their widths
OptionalGroups(f) ==
    (IF HasGpsTime(f) THEN << << "GpsTime", 8 >> >> ELSE << >>)
    \o (IF HasColor(f) THEN << << "ColorRGB", 6 >> >> ELSE << >>)
    \o (IF HasNir(f) THEN << << "NIR", 2 >> >> ELSE << >>)
    \o (IF HasWaveform(f)
         THEN << << "WavePacketDescriptorIndex", 1 >>, << "WaveformDataOffset", 8 >>,
                 << "WaveformPacketSize", 4 >>, << "ReturnPointWaveformLocation", 4 >>,
                 << "WaveformParameters", 12 >> >>
         ELSE << >>)

\* a default path reads RecordWidths[f + 1] bytes per record, and after the
\* point source id exactly the optional groups of the format, all of them read
C23_PlanReads(plan, f) ==
    LET p == FieldIndex(plan, "PointSourceID") IN
    /\ BytesRead(plan, Len(plan)) = RecordWidths[f + 1]
    /\ Len(plan) = p + Len(OptionalGroups(f))
    /\ \A k \in 1..Len(OptionalGroups(f)) :
          /\ plan[p + k].attr = OptionalGroups(f)[k][1]
          /\ plan[p + k].width = OptionalGroups(f)[k][2]
          /\ plan[p + k].read

\* the cursor moves by the width w from each record of the last call to the
\* next one (in a chunk, for the compressed reader), and from the last record
\* to the place where the uncompressed stream is left
C23_Stride(w) ==
    /\ \A i \in 1..(Len(last.cursors) - 1) :
          \/ last.cursors[i + 1] = last.cursors[i] + w
          \/ kind = "laz" /\ i % ChunkSize = 0 /\ last.cursors[i + 1] = 0
    /\ (kind = "las" /\ Len(last.cursors) >= 1) =>
          reader_pos = last.cursors[Len(last.cursors)] + w
    /\ Len(last.cursors) >= 1 =>
          last.cursors[1] = (IF kind = "las" THEN last.pre_pos ELSE 0)

\* C23: for each format id 0..10 the default decode path consumes per record
\* exactly the sum of the on-disk field widths of that format: 20, 28, 26, 34,
\* 57, 63, 30, 36, 38, 59 and 67 bytes for the ids 0..10, the optional groups
\* (gps_time 8, color 6, nir 2, waveform 29) being read exactly when the
\* format's presence flag is set and in that order.
C23_DefaultPathConsumesFieldWidths ==
    /\ C23_PlanReads(LasDefaultPlan(point_format), point_format)
    /\ C23_PlanReads(LazDefaultPlan(point_format), point_format)
    /\ (last.op \in { "read", "read_into" } /\ last.path = "default"
            /\ last.result = "ok") =>
          C23_Stride(RecordWidths[point_format + 1])

\* the default path of both readers on records with all the optional groups
\* one reader can open
C23_Witness ==
    /\ last.op = "read_into" /\ last.path = "default" /\ last.result = "ok"
    /\ Len(last.cursors) = MaxPoints
    /\ \/ kind = "las" /\ point_format = 10
          /\ reader_pos = last.pre_pos + MaxPoints * 67
       \/ kind = "laz" /\ point_format = 3 /\ last.cursors[2] = 34

\* the end of the bytes that the walk of a record from the cursor cur reads
\* (hi: the end of the reads of the steps before k)
RECURSIVE EndOfReads(_, _, _, _)
EndOfReads(plan, k, cur, hi) ==
    IF k > Len(plan) THEN hi
    ELSE IF plan[k].read
    THEN EndOfReads(plan, k + 1, cur + plan[k].width, cur + plan[k].width)
    ELSE IF plan[k].skip THEN EndOfReads(plan, k + 1, cur + plan[k].width, hi)
    ELSE EndOfReads(plan, k + 1, cur, hi)

\* the records pushed by the last call were decoded from the bytes that
\* decompress_many wrote for their chunk
C24_ReadsInsidePrefix(plan) ==
    \A i \in 1..Len(buffer) :
        EndOfReads(plan, 1, last.cursors[i], 0) <= SourceOfRecord(i).fresh

\* C24: for every chunk of n records the compressed reader decompresses
\* exactly n * record_byte_width bytes into the prefix of the decompression
\* buffer before decoding, and the decode of that chunk (default or custom
\* path, any target layout) reads only bytes inside that freshly decompressed
\* prefix, never the stale bytes behind it.
C24_DecodeReadsFreshBytesOnly ==
    (kind = "laz" /\ last.op \in { "read", "read_into" }) =>
        /\ \A i \in 1..Len(buffer) :
              SourceOfRecord(i).fresh =
                  last.chunks[((i - 1) \div ChunkSize) + 1] * size_of_point_in_file
        /\ C24_ReadsInsidePrefix(PlanOfLast)

\* every field a decode path writes goes to the bytes of its attribute in the
\* target record, and is copied raw only when it has the attribute's size
C25_WritesCoverAttribute(plan, target) ==
    \A k \in { k \in DOMAIN plan : plan[k].write } :
        LET a == CHOOSE a \in DOMAIN target : target[a].name = plan[k].attr IN
        /\ plan[k].parser.offset = SizeOfPrefix(target, a - 1)
        /\ plan[k].parser.size = DatatypeSize(target[a].dt)
        /\ plan[k].parser.conv = << >> => plan[k].parser.size = plan[k].srcsize

\* C25: in the custom path every write for record i of a chunk covers exactly
\* the bytes [i * target_record_size + attribute_offset, + attribute_size) of
\* the chunk buffer, and a raw byte copy (no converter) is performed only when
\* the decoded source value has exactly attribute_size bytes; read_into does
\* not panic for any target layout, also one that declares with a datatype of
\* another size an attribute that the source format lacks.
C25_CustomPathNeverPanics ==
    (last.op = "read_into" /\ last.path = "custom") =>
        /\ C25_WritesCoverAttribute(PlanOfLast, last.layout)
        /\ last.result # "panic"

\* C26: after a read_into on the uncompressed reader has failed with an I/O
\* error the reader is still consistent: current_point_index has the value
\* it had before the call and the underlying stream stands at the record with
\* that index, so that a read tried again (or a read after a seek_point to
\* that same index) returns the records from that index on.
C26_ReaderConsistentAfterError ==
    (kind = "las" /\ last.op = "read_into" /\ last.result = "err"
        /\ last.fail_at # NoFailure) =>
        /\ current_point_index = last.pre_index
        /\ reader_pos = OffsetToFirstPoint + current_point_index * size_of_point_in_file

\* C27: if the seek of the underlying stream (uncompressed) or of the
\* decompressor (compressed) fails inside seek_point, the call returns that
\* error and current_point_index keeps the value it had before the call.
C27_FailedSeekKeepsIndex ==
    [][ (last'.op = "seek_point" /\ last'.fail) =>
            /\ last'.result = "err"
            /\ current_point_index' = current_point_index
            /\ phase' = phase ]_vars

\* a failed seek of the decompressor to another index than the current one
C27_Witness ==
    /\ kind = "laz" /\ last.op = "seek_point" /\ last.result = "err" /\ last.fail
    /\ last.pre_index = 2 /\ current_point_index = 2
    /\ Min(point_count, last.resolved) = 0

\* C28: seek_point(SeekFrom::Start(n)) returns min(n, point_count) without
\* panicking for every unsigned 64-bit n, also for n >= 2^63: the conversion
\* of the unsigned start offset to a signed 64-bit position never yields a
\* negative resolved index.  (The widths are those of OffsetBits.)
C28_SeekFromStartNeverPanics ==
    (last.op = "seek_point" /\ last.origin = "Start" /\ ~last.fail) =>
        /\ last.resolved >= 0
        /\ last.result = "ok"
        /\ last.ret = Min(last.offset, point_count)
        /\ current_point_index = Min(last.offset, point_count)

\* C29: on a stream without I/O errors, every read or read_into with
\* count >= 1 issued while remaining_points() > 0 strictly increases the point
\* index (so that repeating such calls reaches remaining_points() = 0 after
\* at most point_count calls), and a read issued while remaining_points() = 0
\* returns zero records and changes nothing.
C29_IsReadStep == last'.op \in { "read", "read_into" } /\ ~last'.fail

C30_FlagsInRange(bits) ==
    /\ bits.ScanDirectionFlag \in { 0, 1 }
    /\ bits.EdgeOfFlightLine \in { 0, 1 }

C30_BitAttributesRecompose ==
    last.op = "read_next_bit_attributes" =>
        /\ C30_FlagsInRange(last.bits)
        /\ IF last.extended
           THEN /\ Len(last.bytes) = 2
                /\ last.bits.ReturnNumber + 16 * last.bits.NumberOfReturns
                      = last.bytes[1]
                /\ last.bits.ClassificationFlags + 16 * last.bits.ScannerChannel
                      + 64 * last.bits.ScanDirectionFlag
                      + 128 * last.bits.EdgeOfFlightLine = last.bytes[2]
                /\ last.bits.ReturnNumber \in 0..15
                /\ last.bits.NumberOfReturns \in 0..15
                /\ last.bits.ClassificationFlags \in 0..15
                /\ last.bits.ScannerChannel \in 0..3
           ELSE /\ Len(last.bytes) = 1
                /\ last.bits.ReturnNumber + 8 * last.bits.NumberOfReturns
                      + 64 * last.bits.ScanDirectionFlag
                      + 128 * last.bits.EdgeOfFlightLine = last.bytes[1]
                /\ last.bits.ReturnNumber \in 0..7
                /\ last.bits.NumberOfReturns \in 0..7

\* a byte of the one-byte packing with every field non-zero and the high bit
\* of the number of returns set
C30_Witness ==
    /\ last.op = "read_next_bit_attributes" /\ ~last.extended
    /\ last.bytes = << 235 >>
    /\ last.bits.ReturnNumber = 3 /\ last.bits.NumberOfReturns = 5
    /\ last.bits.ScanDirectionFlag = 1 /\ last.bits.EdgeOfFlightLine = 1

=============================================================================
